---- MODULE Spec2Model ----
(***************************************************************************)
(* monoio `try_join!` (src/monoio/src/macros/try_join.rs).                 *)
(*                                                                         *)
(* The macro expands to                                                    *)
(*     let mut futures = ( maybe_done(e0), ..., maybe_done(eN-1) );        *)
(*     poll_fn(move |cx| { <one block per branch> ; <tail> }).await        *)
(* The model follows one expansion: the tuple of MaybeDone wrappers, the   *)
(* closure's per-branch blocks (one step each, in macro-repetition order), *)
(* the tail (Pending, or the tuple of taken outputs) and the end of the    *)
(* `.await`, which consumes the poll_fn future.                            *)
(*                                                                         *)
(* Branch i of the source (0-based) is index i+1 here.                     *)
(***************************************************************************)
EXTENDS Integers, Sequences, FiniteSets, TLC

(* ---- bounds of the model ---- *)
MaxN == 3        \* arities 0..MaxN
MaxDelay == 2    \* a branch returns Pending 0..MaxDelay times before its value
MaxVal == 2      \* Ok and Err payloads are drawn from 1..MaxVal

Vals == 1..MaxVal

(* ---- Result<S, E> and Option<Result<S, E>> ---- *)
Ok(v) == [tag |-> "Ok", v |-> v]
Err(e) == [tag |-> "Err", v |-> e]
None == [tag |-> "None", v |-> 0]
Results == {Ok(v) : v \in Vals} \cup {Err(e) : e \in Vals}

(* ---- Poll<Result<(S0,..), E>> as returned by the closure ---- *)
NoReturn == [kind |-> "None", tuple |-> <<>>, err |-> 0]
RetPending == [kind |-> "Pending", tuple |-> <<>>, err |-> 0]
RetOk(t) == [kind |-> "Ok", tuple |-> t, err |-> 0]
\* an Err the combinator makes up instead of forwarding the branch's
RetErrSynthesized(e) == [kind |-> "Err", tuple |-> <<>>, err |-> 0]
RetErr(e) == [kind |-> "Err", tuple |-> <<>>, err |-> e]

VARIABLES
    n,              \* arity of this expansion
    delay,          \* input: branch i yields Pending delay[i] times ...
    res,            \* input: ... and then completes with res[i]
    left,           \* Pending polls branch i's computation still has to return
    state,          \* MaybeDone tag of branch i: "Pending" | "Ready" | "Taken"
    output,         \* MaybeDone payload of branch i when Ready, else None
    gate,           \* input: gate[i] = g > 0: branch i cannot complete before branch
                    \* g's computation was polled (a shared wake source); 0: no gate
    loc,            \* where the tuple `futures` is stored
    pc,             \* "built" | "suspended" | "scan" | "failing" | "resolved" |
                    \* "panicked" | "dropped"
    idx,            \* the branch block the closure is at (n+1: the tail)
    fut,            \* the tuple element the current block bound as `fut` (0: none yet)
    is_pending,     \* the closure's local flag
    ret,            \* what the last call of the closure returned
    panic,          \* the panic message, "" when none
    outerPolls,     \* history: calls of the closure so far
    polledNow,      \* history: branches whose MaybeDone was polled in this call, in order
    innerNow,       \* history: branches whose computation was polled in this call
    pendingAtStart, \* history: branches that were Pending when this call began
    dueErr,         \* history: branches that were due to complete with Err in this call
    innerPolls,     \* history: polls of branch i's computation so far
    takeCalls,      \* history: take_output calls on branch i so far
    nTaken,         \* history: Ready -> Taken transitions of branch i so far
    doneOrder,      \* history: branches in the order they became Ready
    addrs,          \* history: the addresses at which branch i's wrapper was polled
    droppedPending  \* history: branches that were Pending when the aggregate was dropped

vars == <<n, delay, res, gate, left, state, output, loc, pc, idx, fut, is_pending,
          ret, panic, outerPolls, polledNow, innerNow, pendingAtStart, dueErr,
          innerPolls, takeCalls, nTaken, doneOrder, addrs, droppedPending>>

\* the inputs, fixed at construction
input == <<n, delay, res, gate>>

hist == <<outerPolls, polledNow, innerNow, pendingAtStart, dueErr, innerPolls,
          takeCalls, nTaken, doneOrder, addrs, droppedPending>>

(* ---- where a value lives: the `let` of line 79, or the closure's       ---- *)
(* ---- captured state inside the awaited poll_fn future                 ---- *)
InLet == "let"
InClosure == "closure"

Branches == 1..n

\* the history counter of calls stops counting past MaxDelay + 2
CountCall(k) == IF k < MaxDelay + 2 THEN k + 1 ELSE k

(* ---- the branch computation: after(k, r) ---- *)
(* Polled while it still owes Pending answers it returns Pending; then it  *)
(* returns Ready(res[i]).                                                  *)
(* A gated branch also needs its wake source to have fired: the gating     *)
(* branch's computation was polled at least once.                          *)
GateOpen(i) == gate[i] = 0 \/ innerPolls[gate[i]] > 0

InnerIsReady(i) == left[i] = 0 /\ GateOpen(i)

(* ---- MaybeDone ---- *)
(* A wrapper that does not remember Done: polled again it reports Pending. *)
StateAfterPollForgets(i) ==
    IF state[i] = "Pending" /\ InnerIsReady(i) THEN "Ready" ELSE "Pending"

(* poll: Future(f) polls f and stores its value as Done; Done is a no-op;  *)
(* Gone must not be polled.                                                *)
StateAfterPoll(i) ==
    IF state[i] = "Pending" /\ InnerIsReady(i) THEN "Ready" ELSE state[i]

OutputAfterPoll(i) ==
    IF state[i] = "Pending" /\ InnerIsReady(i) THEN res[i] ELSE output[i]

LeftAfterPoll(i) ==
    IF state[i] = "Pending" /\ left[i] > 0 THEN left[i] - 1 ELSE left[i]

(* A wrapper that polls its computation again after it completed.          *)
PollsInnerAlways(i) == state[i] # "Taken"

(* poll reaches the computation only in Future.                            *)
PollsInner(i) == state[i] = "Pending"

(* output_mut / take_output: Some(output) in Done, None otherwise.         *)
OutputMut(st, out) == IF st = "Ready" THEN out ELSE None

(* take_output replaces Done by Gone and leaves the other states alone.    *)
StateAfterTake(st) == IF st = "Ready" THEN "Taken" ELSE st

(* ---- construction: let mut futures = ( maybe_done(e), ... ) ---- *)
Built ==
    /\ left = delay
    /\ state = [i \in 1..n |-> "Pending"]
    /\ output = [i \in 1..n |-> None]
    /\ loc = InLet
    /\ pc = "built"
    /\ idx = 1
    /\ fut = 0
    /\ addrs = [i \in 1..n |-> {}]
    /\ is_pending = FALSE
    /\ ret = NoReturn
    /\ panic = ""
    /\ outerPolls = 0
    /\ polledNow = <<>>
    /\ innerNow = {}
    /\ pendingAtStart = {}
    /\ dueErr = {}
    /\ innerPolls = [i \in 1..n |-> 0]
    /\ takeCalls = [i \in 1..n |-> 0]
    /\ nTaken = [i \in 1..n |-> 0]
    /\ doneOrder = <<>>
    /\ droppedPending = {}

Init ==
    /\ n \in 0..MaxN
    /\ delay \in [1..n -> 0..MaxDelay]
    /\ res \in [1..n -> Results]
    /\ gate = [i \in 1..n |-> 0]
    /\ Built

(* ---- poll_fn(move |cx| ..): the closure takes `futures` by move, and   ---- *)
(* ---- `.await` holds the poll_fn future until it is Ready              ---- *)
Capture ==
    /\ pc = "built"
    /\ loc' = InClosure
    /\ pc' = "suspended"
    /\ UNCHANGED <<input, left, state, output, idx, fut, is_pending, ret, panic>>
    /\ UNCHANGED hist

(* A poll_fn future that is polled again after it returned Ready.          *)
PollAfterResolved ==
    /\ pc \in {"suspended", "resolved"}
    /\ pc' = "scan"
    /\ idx' = 1
    /\ is_pending' = FALSE
    /\ outerPolls' = CountCall(outerPolls)
    /\ polledNow' = <<>>
    /\ innerNow' = {}
    /\ pendingAtStart' = {i \in 1..n : state[i] = "Pending"}
    /\ dueErr' = {i \in 1..n :
                    state[i] = "Pending" /\ InnerIsReady(i) /\ res[i].tag = "Err"}
    /\ UNCHANGED <<input, left, state, output, loc, fut, ret, panic,
                   innerPolls, takeCalls, nTaken, doneOrder, addrs, droppedPending>>

(* A closure whose flag starts out set.                                    *)
PollFlagSet ==
    /\ pc = "suspended"
    /\ pc' = "scan"
    /\ idx' = 1
    /\ is_pending' = TRUE
    /\ outerPolls' = CountCall(outerPolls)
    /\ polledNow' = <<>>
    /\ innerNow' = {}
    /\ pendingAtStart' = {i \in 1..n : state[i] = "Pending"}
    /\ dueErr' = {i \in 1..n :
                    state[i] = "Pending" /\ InnerIsReady(i) /\ res[i].tag = "Err"}
    /\ UNCHANGED <<input, left, state, output, loc, fut, ret, panic,
                   innerPolls, takeCalls, nTaken, doneOrder, addrs, droppedPending>>

(* ---- the enclosing task calls the closure: let mut is_pending = false ---- *)
Poll ==
    /\ pc = "suspended"
    /\ pc' = "scan"
    /\ idx' = 1
    /\ is_pending' = FALSE
    /\ outerPolls' = CountCall(outerPolls)
    /\ polledNow' = <<>>
    /\ innerNow' = {}
    /\ pendingAtStart' = {i \in Branches : state[i] = "Pending"}
    /\ dueErr' = {i \in Branches :
                    state[i] = "Pending" /\ InnerIsReady(i) /\ res[i].tag = "Err"}
    /\ UNCHANGED <<input, left, state, output, loc, fut, ret, panic,
                   innerPolls, takeCalls, nTaken, doneOrder, addrs, droppedPending>>

(* A block that moves the element out of the tuple into a local of the     *)
(* current call before polling it.                                         *)
FutAddrByValue(i) == <<"frame", outerPolls, i>>

(* ---- `let ( $($skip,)* fut, .. ) = &mut futures` and               ---- *)
(* ---- `Pin::new_unchecked(fut)`: element i, in place, where the tuple ---- *)
(* ---- is stored                                                       ---- *)
FutAddr(i) == <<loc, i>>

(* ---- one branch block of the closure, on tuple element i: the poll   ---- *)
(* ---- and the two tests of lines 93 and 95                            ---- *)
Block(i) ==
    /\ LET st == StateAfterPoll(i)
           out == OutputAfterPoll(i)
           polledInner == PollsInner(i)
       IN
       /\ fut' = i
       /\ addrs' = [addrs EXCEPT ![i] = @ \cup {FutAddr(i)}]
       /\ polledNow' = Append(polledNow, i)
       /\ innerNow' = IF polledInner THEN innerNow \cup {i} ELSE innerNow
       /\ innerPolls' = IF polledInner
                        THEN [innerPolls EXCEPT ![i] = @ + 1]
                        ELSE innerPolls
       /\ doneOrder' = IF state[i] = "Pending" /\ st = "Ready"
                       THEN Append(doneOrder, i)
                       ELSE doneOrder
       /\ left' = [left EXCEPT ![i] = LeftAfterPoll(i)]
       /\ IF state[i] = "Taken"
          THEN \* MaybeDone::poll on Gone
               /\ pc' = "panicked"
               /\ panic' = "MaybeDone polled after value taken"
               /\ UNCHANGED <<state, output, idx, is_pending>>
          ELSE /\ state' = [state EXCEPT ![i] = st]
               /\ output' = [output EXCEPT ![i] = out]
               /\ IF st = "Pending"
                  THEN \* fut.as_mut().poll(cx).is_pending()
                       /\ is_pending' = TRUE
                       /\ idx' = idx + 1
                       /\ UNCHANGED <<pc, panic>>
                  ELSE IF OutputMut(st, out) = None
                  THEN \* output_mut().expect("expected completed future")
                       /\ pc' = "panicked"
                       /\ panic' = "expected completed future"
                       /\ UNCHANGED <<idx, is_pending>>
                  ELSE IF OutputMut(st, out).tag = "Err"
                  THEN \* .is_err(): on to the return of line 96
                       /\ pc' = "failing"
                       /\ UNCHANGED <<idx, is_pending, panic>>
                  ELSE \* completed with Ok: next block
                       /\ idx' = idx + 1
                       /\ UNCHANGED <<pc, is_pending, panic>>
    /\ UNCHANGED <<input, loc, ret, outerPolls, pendingAtStart, dueErr, takeCalls,
                   nTaken, droppedPending>>

(* A return that copies the error out through output_mut and leaves the    *)
(* wrapper Done.                                                           *)
ReturnErrPeek ==
    /\ pc = "failing"
    /\ ret' = RetErr(OutputMut(state[fut], output[fut]).v)
    /\ pc' = "resolved"
    /\ UNCHANGED <<input, left, state, output, loc, idx, fut, is_pending, panic>>
    /\ UNCHANGED hist

(* ---- return Ready(Err(fut.take_output().expect(..).err().unwrap())) ---- *)
ReturnErr ==
    /\ pc = "failing"
    /\ LET i == fut
           taken == OutputMut(state[i], output[i])
       IN
       /\ takeCalls' = [takeCalls EXCEPT ![i] = @ + 1]
       /\ nTaken' = [nTaken EXCEPT ![i] = IF state[i] = "Ready" THEN @ + 1 ELSE @]
       /\ state' = [state EXCEPT ![i] = StateAfterTake(@)]
       /\ output' = [output EXCEPT ![i] = None]
       /\ IF taken = None
          THEN \* .expect("expected completed future")
               /\ pc' = "panicked"
               /\ panic' = "expected completed future"
               /\ ret' = ret
          ELSE IF taken.tag # "Err"
          THEN \* .err().unwrap() on an Ok
               /\ pc' = "panicked"
               /\ panic' = "called Option::unwrap() on a None value"
               /\ ret' = ret
          ELSE /\ ret' = RetErr(taken.v)
               /\ pc' = "resolved"
               /\ panic' = panic
    /\ UNCHANGED <<input, left, loc, idx, fut, is_pending, outerPolls, polledNow,
                   innerNow, pendingAtStart, dueErr, innerPolls, doneOrder, addrs,
                   droppedPending>>

(* A scan that walks the tuple from its last element to its first.         *)
PollBranchDescending ==
    /\ pc = "scan"
    /\ idx <= n
    /\ Block(n + 1 - idx)

(* ---- the blocks run in macro-repetition order: block k destructures  ---- *)
(* ---- `( $($skip,)* fut, .. )` with k-1 skips, so it is on element k   ---- *)
PollBranch ==
    /\ pc = "scan"
    /\ idx <= n
    /\ Block(idx)

(* A tail that returns Pending as soon as the flag is set, before the     *)
(* remaining blocks have run.                                              *)
ReturnPendingEarly ==
    /\ pc = "scan"
    /\ is_pending
    /\ ret' = RetPending
    /\ pc' = "suspended"
    /\ UNCHANGED <<input, left, state, output, loc, idx, fut, is_pending, panic>>
    /\ UNCHANGED hist

(* ---- the tail: if is_pending { Pending } ---- *)
ReturnPending ==
    /\ pc = "scan"
    /\ idx = n + 1
    /\ is_pending
    /\ ret' = RetPending
    /\ pc' = "suspended"
    /\ UNCHANGED <<input, left, state, output, loc, idx, fut, is_pending, panic>>
    /\ UNCHANGED hist

(* ---- the tail: else { Ready(Ok(( take_output of each branch, ))) } ---- *)
(* The takes run in index order; the first branch that is not Done, or is  *)
(* Done with Err, panics and leaves the later branches untouched.          *)
Takeable(i) == state[i] = "Ready" /\ output[i].tag = "Ok"

FirstBad == IF \A i \in Branches : Takeable(i)
            THEN n + 1
            ELSE CHOOSE i \in Branches :
                    /\ ~Takeable(i)
                    /\ \A j \in Branches : j < i => Takeable(j)

(* A tuple expression that lists the branches last to first.               *)
SuccessTupleReversed == [i \in 1..n |-> output[n + 1 - i].v]

(* The tuple expression: position i holds branch i's taken Ok value.        *)
SuccessTuple == [i \in Branches |-> output[i].v]

(* A tail that answers Pending whatever the flag says.                     *)
TailAlwaysPending ==
    /\ pc = "scan"
    /\ idx = n + 1
    /\ ~is_pending
    /\ ret' = RetPending
    /\ pc' = "suspended"
    /\ UNCHANGED <<input, left, state, output, loc, idx, fut, is_pending, panic>>
    /\ UNCHANGED hist

(* A tuple expression whose every position destructures `( fut, .. )`, the *)
(* skips forgotten: each take is on element 1, and the second finds Gone.  *)
BuildTupleNoSkip ==
    /\ pc = "scan"
    /\ idx = n + 1
    /\ ~is_pending
    /\ n >= 1
    /\ takeCalls' = [takeCalls EXCEPT ![1] = @ + (IF n >= 2 THEN 2 ELSE 1)]
    /\ nTaken' = [nTaken EXCEPT ![1] = @ + (IF state[1] = "Ready" THEN 1 ELSE 0)]
    /\ state' = [state EXCEPT ![1] = IF @ = "Ready" THEN "Taken" ELSE @]
    /\ output' = [output EXCEPT ![1] = None]
    /\ IF n = 1 /\ Takeable(1)
       THEN /\ ret' = RetOk(<<output[1].v>>)
            /\ pc' = "resolved"
            /\ panic' = panic
       ELSE /\ ret' = ret
            /\ pc' = "panicked"
            /\ panic' = "expected completed future"
    /\ UNCHANGED <<input, left, loc, idx, fut, is_pending, outerPolls, polledNow,
                   innerNow, pendingAtStart, dueErr, innerPolls, doneOrder, addrs,
                   droppedPending>>

(* ---- Ready(Ok(( .. ))): the takes, then the return ---- *)
TupleArm ==
    /\ LET bad == FirstBad
           called(i) == i <= bad
           taken(i) == i <= bad /\ state[i] = "Ready"
       IN
       /\ takeCalls' = [i \in Branches |-> IF called(i) THEN takeCalls[i] + 1 ELSE takeCalls[i]]
       /\ nTaken' = [i \in Branches |-> IF taken(i) THEN nTaken[i] + 1 ELSE nTaken[i]]
       /\ state' = [i \in Branches |-> IF called(i) THEN StateAfterTake(state[i]) ELSE state[i]]
       /\ output' = [i \in Branches |-> IF taken(i) THEN None ELSE output[i]]
       /\ IF bad = n + 1
          THEN /\ ret' = RetOk(SuccessTuple)
               /\ pc' = "resolved"
               /\ panic' = panic
          ELSE /\ ret' = ret
               /\ pc' = "panicked"
               /\ panic' = IF state[bad] = "Ready"
                           THEN "expected Ok(_)"
                           ELSE "expected completed future"
    /\ UNCHANGED <<input, left, loc, idx, fut, is_pending, outerPolls, polledNow,
                   innerNow, pendingAtStart, dueErr, innerPolls, doneOrder, addrs,
                   droppedPending>>

(* A tail whose test is inverted: the tuple is built when the flag is set. *)
BuildTupleFlagInverted ==
    /\ pc = "scan"
    /\ idx = n + 1
    /\ is_pending
    /\ TupleArm

(* ---- the tail: else { Ready(Ok(( .. ))) } ---- *)
BuildTuple ==
    /\ pc = "scan"
    /\ idx = n + 1
    /\ ~is_pending
    /\ TupleArm

(* ---- `.await` has its value: the poll_fn future, and with it the      ---- *)
(* ---- closure and the tuple it owns, is dropped                        ---- *)
Drop ==
    /\ pc = "resolved"
    /\ pc' = "dropped"
    /\ droppedPending' = {i \in Branches : state[i] = "Pending"}
    /\ UNCHANGED <<input, left, state, output, loc, idx, fut, is_pending, ret, panic,
                   outerPolls, polledNow, innerNow, pendingAtStart, dueErr,
                   innerPolls, takeCalls, nTaken, doneOrder, addrs>>

Next ==
    \/ Capture
    \/ Poll
    \/ PollBranch
    \/ ReturnErr
    \/ ReturnPending
    \/ BuildTuple
    \/ Drop

Spec == Init /\ [][Next]_vars

(* ---- branches with a shared wake source ---- *)
(* One branch is gated on another: it completes only once the other's     *)
(* computation was polled. Payloads follow the branch index.               *)
PayloadOf(i) == ((i - 1) % MaxVal) + 1

WakeInit ==
    /\ n \in 2..MaxN
    /\ delay \in [1..n -> 0..MaxDelay]
    /\ res \in [1..n -> Results]
    /\ \A i \in 1..n : res[i].v = PayloadOf(i)
    /\ \E g, i \in 1..n :
          /\ g # i
          /\ gate = [k \in 1..n |-> IF k = i THEN g ELSE 0]
    /\ Built

WakeSpec == WakeInit /\ [][Next]_vars

(* `.await` re-polls after every Pending and each call of the closure runs *)
(* to its return.                                                          *)
(* Payloads do not steer the closure, so the liveness specification draws *)
(* them from one value.                                                    *)
LiveInit == Init /\ \A i \in 1..n : res[i].v = 1

LiveSpec == LiveInit /\ [][Next]_vars /\ WF_vars(Next)

(* ---- vocabulary of the properties ---- *)
SeqUpTo(k) == [i \in 1..k |-> i]
MinOf(S) == CHOOSE x \in S : \A y \in S : x <= y
MaxDelayOf == IF n = 0 THEN 0
              ELSE CHOOSE d \in 0..MaxDelay :
                      /\ \E i \in Branches : delay[i] = d
                      /\ \A i \in Branches : delay[i] <= d
AllOk == \A i \in Branches : res[i].tag = "Ok"
Completed == ret.kind \in {"Ok", "Err"}
\* a call of the closure has returned (and none is running)
PollEnded == outerPolls > 0 /\ pc \in {"suspended", "resolved", "dropped"}
\* the branch whose Err was returned
Failed == CHOOSE i \in Branches : state[i] = "Taken"

(* ---- C1 ---- *)
(* C1: when every branch completes with Ok, the combinator never returns  *)
(* Err, never panics, and what it returns as Complete is Ok of the tuple   *)
(* whose position i is branch i's value, whatever the completion order.   *)
C1_AllOkTupleInOrder ==
    AllOk =>
        /\ ret.kind # "Err"
        /\ pc # "panicked"
        /\ pc \in {"resolved", "dropped"} =>
              ret = RetOk([i \in Branches |-> res[i].v])

\* three branches that completed last to first, with differing values
C1_Witness ==
    /\ pc = "resolved"
    /\ n = 3
    /\ AllOk
    /\ doneOrder = <<3, 2, 1>>
    /\ res[1].v # res[3].v
    /\ ret.kind = "Ok"

(* ---- C2 ---- *)
(* C2: a call of the closure in which some branch is due to complete with *)
(* Err returns Complete(Err(e)) in that very call, e being the error of   *)
(* the lowest-indexed such branch, whatever the other branches hold.      *)
C2_LowestErrSamePoll ==
    (PollEnded /\ dueErr # {}) =>
        /\ ret = RetErr(res[MinOf(dueErr)].v)
        /\ state[MinOf(dueErr)] = "Taken"

\* two branches fail in one call, after an Ok of an earlier call and an Ok
\* of the same call, and the errors differ
C2_Witness ==
    /\ pc = "resolved"
    /\ Cardinality(dueErr) >= 2
    /\ \E i, j \in dueErr : res[i].v # res[j].v
    /\ \E i \in Branches : state[i] = "Ready" /\ output[i].tag = "Ok"
    /\ outerPolls >= 2

(* ---- C3 ---- *)
(* C3: once a branch's Err is returned, the branches behind it were not    *)
(* polled in that call, no branch is polled (nor any wrapper changed)      *)
(* afterwards, and the branches then Pending are dropped Pending.          *)
C3_ErrStopsPollingState ==
    ret.kind = "Err" =>
        /\ polledNow = SeqUpTo(Failed)
        /\ \A i \in Branches : i > Failed => i \notin innerNow
        /\ \A i \in Branches : i > Failed => innerPolls[i] <= outerPolls - 1
        /\ \A i \in Branches : i < Failed => innerPolls[i] <= outerPolls
        /\ pc \in {"resolved", "dropped"}
        /\ pc = "dropped" =>
              droppedPending = {i \in Branches : i # Failed /\ innerPolls[i] <= delay[i]}

C3_ErrStopsPollingStep ==
    ret.kind = "Err" =>
        /\ innerPolls' = innerPolls
        /\ polledNow' = polledNow
        /\ state' = state
        /\ left' = left
        /\ ret' = ret

(* C3: both parts, the state part in every state and the step part on     *)
(* every step after an Err was returned.                                   *)
C3_ErrStopsPolling ==
    []C3_ErrStopsPollingState /\ [][C3_ErrStopsPollingStep]_vars

\* the first call fails at branch 2 of 3 while branch 3 was never polled and
\* branch 1 is Pending, and the aggregate is dropped with both
C3_Witness ==
    /\ pc = "dropped"
    /\ ret.kind = "Err"
    /\ n = 3
    /\ Failed = 2
    /\ droppedPending = {1, 3}
    /\ innerPolls[3] = 0

(* ---- C4 ---- *)
(* C4 as stated: in every call of the closure, every branch that was       *)
(* Pending when the call began has its computation polled in the call.    *)
C4_Original ==
    PollEnded => pendingAtStart \subseteq innerNow

(* C4 amended: that holds of every call that returns Pending or Ok; a call *)
(* that returns Err polls the branches Pending at its start up to and      *)
(* including the failing one, and none behind it.                          *)
C4_EveryPendingPolledUnlessErr ==
    PollEnded =>
        /\ ret.kind \in {"Pending", "Ok"} => innerNow = pendingAtStart
        /\ ret.kind = "Err" =>
              innerNow = {i \in pendingAtStart : i <= Failed}

\* a second call that begins with three Pending branches and returns the
\* Err of branch 2: branches 1 and 2 were polled, branch 3 was not
C4_Witness ==
    /\ pc = "resolved"
    /\ ret.kind = "Err"
    /\ outerPolls = 2
    /\ pendingAtStart = {1, 2, 3}
    /\ innerNow = {1, 2}

(* ---- C5 ---- *)
(* C5: a Pending branch does not end the scan: block k runs after blocks   *)
(* 1..k-1 whatever they found; the call returns Pending exactly when no    *)
(* Err was returned and a branch is left Pending, and then every branch    *)
(* was polled; an Err behind a Pending branch is returned in the call.     *)
C5_PendingDoesNotEndScan ==
    /\ pc = "scan" => polledNow = SeqUpTo(idx - 1)
    /\ PollEnded =>
          /\ (ret.kind = "Pending") <=>
                (ret.kind # "Err" /\ \E i \in Branches : state[i] = "Pending")
          /\ ret.kind = "Pending" => polledNow = SeqUpTo(n)
          /\ (\E i, j \in pendingAtStart : i < j /\ left[i] > 0 /\ j \in dueErr) =>
                ret.kind = "Err"

\* branch 1 is left Pending and branch 3's Err is returned
C5_Witness ==
    /\ pc = "resolved"
    /\ ret.kind = "Err"
    /\ n = 3
    /\ Failed = 3
    /\ state[1] = "Pending"
    /\ polledNow = <<1, 2, 3>>

(* ---- C6 ---- *)
(* C6: with no branch the closure never returns Pending (nor Err, nor      *)
(* panics), and its first call returns Complete(Ok(())).                   *)
C6_EmptyResolvesOnFirstPoll ==
    n = 0 =>
        /\ ret.kind \notin {"Pending", "Err"}
        /\ pc # "panicked"
        /\ PollEnded => (ret = RetOk(<<>>) /\ outerPolls = 1)

C6_Witness ==
    /\ n = 0
    /\ pc = "resolved"
    /\ ret.kind = "Ok"
    /\ outerPolls = 1

(* ---- C7 ---- *)
(* C7: every branch completes after finitely many polls and the closure is *)
(* called again after each Pending; then it eventually returns Complete.   *)
C7_EventuallyCompletes == <>Completed

\* a Complete return after as many Pending returns as the bound allows
C7_Witness ==
    /\ Completed
    /\ outerPolls = MaxDelay + 1
    /\ n >= 2

(* ---- C8 ---- *)
(* C8: no call returns Pending with every branch Ready; when every branch  *)
(* completes on its first poll the first call returns Complete; and an Ok  *)
(* is returned by the call in which the slowest branch completes.          *)
C8_NoExtraWake ==
    /\ (pc = "suspended" /\ outerPolls > 0) =>
          \E i \in Branches : state[i] = "Pending"
    /\ (PollEnded /\ \A i \in Branches : delay[i] = 0) =>
          (Completed /\ outerPolls = 1)
    /\ ret.kind = "Ok" => outerPolls = MaxDelayOf + 1

\* try_join!(after(2, Ok), ok): Ok on the third call, where branch 1 completes
C8_Witness ==
    /\ pc = "resolved"
    /\ ret.kind = "Ok"
    /\ n = 2
    /\ delay = <<2, 0>>
    /\ outerPolls = 3
    /\ doneOrder = <<2, 1>>

(* ---- C9 ---- *)
(* C9: take_output is called on each branch at most once, so each branch   *)
(* goes Ready -> Taken at most once.                                       *)
C9_TakenAtMostOnce ==
    \A i \in Branches :
        /\ takeCalls[i] <= 1
        /\ nTaken[i] <= takeCalls[i]

\* an Ok of three branches after a Pending return: each was taken once
C9_Witness ==
    /\ pc = "resolved"
    /\ ret.kind = "Ok"
    /\ n = 3
    /\ outerPolls >= 2
    /\ \A i \in Branches : nTaken[i] = 1 /\ state[i] = "Taken"

(* ---- C11 ---- *)
(* C11: an Err the combinator returns is the value a branch completed     *)
(* with, moved out of that branch; with no branch completing with Err no   *)
(* Err is returned.                                                        *)
C11_ErrIsForwarded ==
    ret.kind = "Err" =>
        \E i \in Branches :
            /\ res[i].tag = "Err"
            /\ innerPolls[i] = delay[i] + 1
            /\ state[i] = "Taken"
            /\ ret.err = res[i].v

\* an Err is returned while another branch, still Pending, holds a different one
C11_Witness ==
    /\ ret.kind = "Err"
    /\ \E j \in Branches :
          /\ state[j] = "Pending"
          /\ res[j].tag = "Err"
          /\ res[j].v # ret.err

(* ---- C12 ---- *)
(* C12: every poll of a branch finds it at one address, that of its        *)
(* element of the tuple inside the closure, from its first poll to the     *)
(* drop; the tuple is not moved once the closure was called.               *)
C12_NoMoveAfterFirstPoll ==
    /\ \A i \in Branches :
          /\ Cardinality(addrs[i]) <= 1
          /\ \A a \in addrs[i] : a = <<InClosure, i>>
    /\ outerPolls > 0 => loc = InClosure

\* a branch polled in three calls, and then dropped
C12_Witness ==
    /\ pc = "dropped"
    /\ \E i \in Branches : innerPolls[i] = 3 /\ addrs[i] = {<<InClosure, i>>}

(* ---- C13 ---- *)
(* C13: a wrapper's state changes only Pending -> Ready or Ready -> Taken. *)
C13_MonotonicStep ==
    \A i \in Branches :
        state'[i] # state[i] =>
            <<state[i], state'[i]>> \in {<<"Pending", "Ready">>, <<"Ready", "Taken">>}

(* C13: on every step of every run.                                        *)
C13_Monotonic == [][C13_MonotonicStep]_vars

\* after an Err: one branch Taken, one held Ready since an earlier call, one Pending
C13_Witness ==
    /\ pc = "resolved"
    /\ ret.kind = "Err"
    /\ outerPolls >= 2
    /\ \E i, j \in Branches :
          /\ state[i] = "Ready"
          /\ state[j] = "Pending"
          /\ innerPolls[i] < outerPolls

(* ---- C14 ---- *)
(* C14: until the combinator returns Complete no take_output is called and *)
(* no wrapper is Taken; a branch that completed stays Ready with the value *)
(* it completed with; and an Ok output is taken only by the tuple          *)
(* expression, never on the way to an Err.                                 *)
C14_NoTakeBeforeComplete ==
    /\ ~Completed =>
          \A i \in Branches : state[i] # "Taken" /\ takeCalls[i] = 0
    /\ \A i \in Branches : state[i] = "Ready" => output[i] = res[i]
    /\ ret.kind = "Err" =>
          \A i \in Branches : res[i].tag = "Ok" => takeCalls[i] = 0

\* after a second Pending return a branch that completed with Ok in the first
\* call is still Ready
C14_Witness ==
    /\ pc = "suspended"
    /\ outerPolls = 2
    /\ \E i \in Branches :
          /\ innerPolls[i] = 1
          /\ state[i] = "Ready"
          /\ output[i] = res[i]
          /\ res[i].tag = "Ok"

(* ---- C15 ---- *)
(* C15: when Err is returned exactly one wrapper is Taken, the failing     *)
(* branch's; every other is Pending, or Ready with its untaken Ok value,   *)
(* and is dropped so.                                                      *)
C15_OnlyFailingTaken ==
    ret.kind = "Err" =>
        /\ Cardinality({i \in Branches : state[i] = "Taken"}) = 1
        /\ res[Failed].tag = "Err"
        /\ nTaken[Failed] = 1
        /\ \A i \in Branches \ {Failed} :
              /\ nTaken[i] = 0
              /\ state[i] \in {"Pending", "Ready"}
              /\ state[i] = "Ready" => (output[i] = res[i] /\ res[i].tag = "Ok")
        /\ pc = "dropped" =>
              droppedPending = {i \in Branches : state[i] = "Pending"}

\* dropped after an Err with one Ok left untaken and one branch Pending
C15_Witness ==
    /\ pc = "dropped"
    /\ ret.kind = "Err"
    /\ n = 3
    /\ \E i \in Branches : state[i] = "Ready" /\ output[i].tag = "Ok"
    /\ Cardinality(droppedPending) = 1

(* ---- C16 ---- *)
(* C16: within one call the wrappers are polled in the order 1, 2, ..,     *)
(* each at most once, block k being reached after exactly blocks 1..k-1.   *)
C16_AscendingOncePerPoll ==
    /\ Len(polledNow) <= n
    /\ polledNow = SeqUpTo(Len(polledNow))
    /\ pc = "scan" => Len(polledNow) = idx - 1
    /\ pc = "failing" => Len(polledNow) = idx /\ fut = idx

\* a second full scan of three branches
C16_Witness ==
    /\ pc = "suspended"
    /\ outerPolls = 2
    /\ polledNow = <<1, 2, 3>>

(* ---- C17 ---- *)
(* C17: a wrapper that is Ready is not changed by being polled again: its  *)
(* computation is not polled and its output stays; so a computation is     *)
(* polled at most once after its last Pending answer.                      *)
C17_ReadyState ==
    \A i \in Branches :
        /\ innerPolls[i] <= delay[i] + 1
        /\ state[i] = "Ready" => (innerPolls[i] = delay[i] + 1 /\ output[i] = res[i])

C17_ReadyStep ==
    \A i \in Branches :
        state[i] = "Ready" =>
            /\ innerPolls'[i] = innerPolls[i]
            /\ left'[i] = left[i]
            /\ state'[i] = "Ready" => output'[i] = output[i]

(* C17: the state part in every state, the step part on every step.       *)
C17_ReadyPollIsNoOp == []C17_ReadyState /\ [][C17_ReadyStep]_vars

\* at the tail of the third call: a branch that completed in the first call
\* had its wrapper polled again in the second and the third
C17_Witness ==
    /\ pc = "scan"
    /\ idx = n + 1
    /\ outerPolls = 3
    /\ \E i \in Branches :
          /\ state[i] = "Ready"
          /\ innerPolls[i] = 1
          /\ \E k \in 1..Len(polledNow) : polledNow[k] = i

(* ---- C18 ---- *)
(* C18: no expect or unwrap of the closure fails, and no wrapper is polled *)
(* after its value was taken.                                              *)
C18_NoPanic ==
    /\ pc # "panicked"
    /\ panic = ""
    /\ pc = "failing" => (state[fut] = "Ready" /\ output[fut].tag = "Err")
    /\ (pc = "scan" /\ idx = n + 1 /\ ~is_pending) => FirstBad = n + 1

\* the tuple of three branches was built in the third call
C18_Witness ==
    /\ pc = "resolved"
    /\ ret.kind = "Ok"
    /\ n = 3
    /\ outerPolls = 3
    /\ panic = ""

(* ---- C19 ---- *)
(* The aggregate-level state, read off the wrappers and the closure.       *)
Agg ==
    IF pc = "panicked" THEN "Panicked"
    ELSE IF pc \in {"resolved", "dropped"} THEN "Resolved"
    ELSE IF \E i \in Branches : state[i] = "Ready" /\ output[i].tag = "Err" THEN "Failed"
    ELSE IF \E i \in Branches : state[i] = "Pending" THEN "Armed"
    ELSE "Succeeding"

AggEdges ==
    {<<"Armed", "Armed">>, <<"Armed", "Failed">>, <<"Failed", "Resolved">>,
     <<"Armed", "Succeeding">>, <<"Succeeding", "Succeeding">>,
     <<"Succeeding", "Resolved">>, <<"Resolved", "Resolved">>}

C19_AggState ==
    /\ pc = "built" => Agg = (IF n = 0 THEN "Succeeding" ELSE "Armed")
    /\ (pc = "suspended" /\ outerPolls > 0) => Agg = "Armed"
    /\ Agg = "Resolved" => Completed

C19_AggStep ==
    /\ <<Agg, Agg'>> \in AggEdges
    /\ (Agg = "Failed" /\ Agg' = "Resolved") => ret'.kind = "Err"
    /\ (Agg = "Succeeding" /\ Agg' = "Resolved") => ret'.kind = "Ok"

(* C19: the aggregate starts Armed (Succeeding with no branch); a call     *)
(* that returns Pending leaves it Armed; its steps are Armed -> Armed,     *)
(* Armed -> Failed -> Resolved (with Err) and Armed -> Succeeding ->       *)
(* Resolved (with Ok), Succeeding lasting from the last completion to the  *)
(* return; nothing leaves Resolved, so Failed and Succeeding exclude each  *)
(* other in a run.                                                         *)
C19_AggregateStateMachine == []C19_AggState /\ [][C19_AggStep]_vars

\* Failed is entered in a second call, after an Armed -> Armed call
C19_Witness ==
    /\ Agg = "Failed"
    /\ pc = "failing"
    /\ outerPolls = 2
    /\ n = 3

(* ---- C20 ---- *)
Gated == CHOOSE i \in Branches : gate[i] # 0
Enabler == gate[Gated]
\* polls of branch i's computation before the current call
PollsBefore(i) == innerPolls[i] - (IF i \in innerNow THEN 1 ELSE 0)
\* in the current call the gated branch was polled waiting for nothing but
\* its wake source
GatedWasDue == Gated \in innerNow /\ PollsBefore(Gated) >= delay[Gated]
AnswerIsCorrect ==
    /\ pc # "panicked"
    /\ ret.kind = "Ok" => (AllOk /\ ret.tuple = [i \in Branches |-> res[i].v])
    /\ ret.kind = "Err" =>
          \E i \in Branches :
              res[i].tag = "Err" /\ state[i] = "Taken" /\ ret.err = res[i].v
    /\ AllOk => ret.kind # "Err"

(* C20 as stated: whenever a call polls both the enabling and the gated    *)
(* branch, the gated one waiting only for its wake source, that call has   *)
(* dealt with the gated branch (or has returned an Err), for either index  *)
(* order.                                                                  *)
C20_Original ==
    (PollEnded /\ Enabler \in innerNow /\ GatedWasDue) =>
        (ret.kind = "Err" \/ state[Gated] # "Pending")

(* C20 amended: the gated branch completes in the call in which it is      *)
(* polled exactly when its wake source fired before its block ran: in an   *)
(* earlier call, or in this call with the enabling branch at a lower       *)
(* index. With the enabling branch at a higher index the call returns      *)
(* without the gated branch and a later call completes it: immediate Ok    *)
(* branches resolve in the first call in the one order and in the second   *)
(* in the other. The answer returned is the correct one in both orders.    *)
C20_SharedWakeSource ==
    /\ AnswerIsCorrect
    /\ (PollEnded /\ GatedWasDue) =>
          (state[Gated] # "Pending" <=>
              \/ PollsBefore(Enabler) >= 1
              \/ (Enabler \in innerNow /\ Enabler < Gated))
    /\ (ret.kind = "Ok" /\ \A i \in Branches : delay[i] = 0) =>
          outerPolls = (IF Enabler < Gated THEN 1 ELSE 2)

\* two immediate Ok branches, the first gated on the second: Pending from the
\* first call, the tuple from the second
C20_Witness ==
    /\ pc = "resolved"
    /\ n = 2
    /\ Gated = 1
    /\ Enabler = 2
    /\ delay = <<0, 0>>
    /\ outerPolls = 2
    /\ ret = RetOk(<<res[1].v, res[2].v>>)
    /\ res[1].v # res[2].v

TypeOK ==
    /\ n \in 0..MaxN
    /\ pc \in {"built", "suspended", "scan", "failing", "resolved", "panicked", "dropped"}
    /\ loc \in {InLet, InClosure}
    /\ fut \in 0..n
    /\ idx \in 1..(n + 1)
    /\ is_pending \in BOOLEAN
    /\ \A i \in Branches : state[i] \in {"Pending", "Ready", "Taken"}
    /\ \A i \in Branches : left[i] \in 0..MaxDelay
====
